---- MODULE Spec2Model ----
(***************************************************************************)
(* A pagination session of PaginationView (src/pagination.py, and its copy *)
(* in src/main.py) over a menus.PageSource.                                *)
(*                                                                         *)
(* The view's coroutines are cut at the awaits that really suspend: one    *)
(* action is the code between two such awaits.  A network call is two      *)
(* things: the payload is built when the call is made (it reads the view's *)
(* buttons at that moment) and it takes effect on the platform when the    *)
(* awaiting action runs.  The list source of the repository                *)
(* (GuildMenuPageSource, a menus.ListPageSource) has a get_page and a      *)
(* format_page with no await in them, so they run inside the action that   *)
(* calls them; a source with an unknown page count ("lazy") suspends in    *)
(* both and may fail in both.                                              *)
(*                                                                         *)
(* The platform side (discord.py's View) is modelled by what the view's    *)
(* code relies on: a press is dispatched to a new task only while the view *)
(* is listening and not finished, self.stop() and the timeout finish the   *)
(* view, and the timeout starts on_timeout as a task of its own.           *)
(*                                                                         *)
(* src/main.py does not parse as it stands (the decorator of its line 172  *)
(* is garbled); its copy of the view is modelled as written otherwise: it  *)
(* differs from src/pagination.py in _update_labels alone.                 *)
(***************************************************************************)
EXTENDS Integers, Sequences, FiniteSets, Bags, TLC

\* ---------------------------------------------------------------- bounds
MaxItems == 3
MaxPerPage == 2
MaxLazyPages == 2
MaxPresses == 2
MaxInFlight == 2
MaxStarts == 2

\* Python's None where the code holds an Optional[int].
None == -1

Buttons == {"first", "prev", "stop", "next", "last"}
Users == {"owner", "other", "nobody"}
Copies == {"pagination", "main"}

\* ---------------------------------------------------------- page sources
\* menus.ListPageSource(data, per_page): n entries held in memory.
\* A lazy source holds n pages and does not know its page count.
Sources ==
    [kind : {"list"}, n : 0..MaxItems, per_page : 1..MaxPerPage]
    \cup [kind : {"lazy"}, n : 1..MaxLazyPages, per_page : {1}]

\* source.get_max_pages(): divmod(len(entries), per_page), one more page for
\* a remainder; None for a source that cannot tell.
get_max_pages(src) ==
    IF src.kind = "list"
    THEN LET pages == src.n \div src.per_page
             left_over == src.n % src.per_page
         IN IF left_over # 0 THEN pages + 1 ELSE pages
    ELSE None

\* source.is_paginating(): len(entries) > per_page for the list source.
is_paginating(src) ==
    IF src.kind = "list" THEN src.n > src.per_page ELSE TRUE

\* source.get_page(page_number): "ok" or "IndexError".  The list source
\* indexes entries[page_number] when per_page == 1 (Python's negative
\* indices wrap) and slices otherwise (a slice never raises).
get_page(src, p) ==
    IF src.kind = "list"
    THEN IF src.per_page = 1
         THEN IF (-src.n) <= p /\ p < src.n THEN "ok" ELSE "IndexError"
         ELSE "ok"
    ELSE IF 0 <= p /\ p < src.n THEN "ok" ELSE "IndexError"

\* Python's seq[a:b]: negative bounds count from the end, and both are
\* clipped to the sequence.
py_slice(seq, a, b) ==
    LET n == Len(seq)
        clip(i) == IF i < 0 THEN (IF i + n < 0 THEN 0 ELSE i + n)
                   ELSE (IF i > n THEN n ELSE i)
    IN SubSeq(seq, clip(a) + 1, clip(b))

\* menus.ListPageSource.get_page over its entries: entries[page_number]
\* itself when per_page == 1 (IndexError outside -n..n-1), the slice
\* entries[base:base + per_page] otherwise.
list_get_page(entries, per_page, p) ==
    LET n == Len(entries)
    IN IF per_page = 1
       THEN IF (-n) <= p /\ p < n
            THEN [ok |-> TRUE, single |-> TRUE,
                  items |-> <<entries[IF p >= 0 THEN p + 1 ELSE n + p + 1]>>]
            ELSE [ok |-> FALSE, single |-> TRUE, items |-> <<>>]
       ELSE [ok |-> TRUE, single |-> FALSE,
             items |-> py_slice(entries, p * per_page, p * per_page + per_page)]

\* ------------------------------------------------------ the guild listing
\* servers_command: one (guild, invite_link) entry per guild, the link being
\* the first invite's url or "No invite available".
guilds_data(has_invite) ==
    [i \in 1..Len(has_invite) |->
        [name |-> "guild" \o ToString(i),
         link |-> IF has_invite[i] THEN "http://inv/" \o ToString(i)
                  ELSE "No invite available"]]

\* "\n\n".join(lines)
RECURSIVE join(_)
join(lines) ==
    IF lines = <<>> THEN ""
    ELSE IF Len(lines) = 1 THEN lines[1]
    ELSE lines[1] \o "\n\n" \o join(Tail(lines))

\* GuildMenuPageSource.format_page of src/main.py: the embed's description.
\* Given the single entry a per_page of 1 yields, it indexes into the guild
\* and raises.
format_page(page) ==
    IF page.single
    THEN [ok |-> FALSE, text |-> ""]
    ELSE LET entries_embed ==
                 [i \in 1..Len(page.items) |->
                     page.items[i].name \o ": " \o page.items[i].link]
             joined == join(entries_embed)
         IN [ok |-> TRUE,
             text |-> IF joined = "" THEN "No guilds were found." ELSE joined]

\* GuildMenuPageSource.format_page of src/menu.py: entry[1].invite[0] of a
\* link, and "\n\n".join(entries) of the tuples, raise for any entry.
format_page_menu(page) ==
    IF page.single \/ page.items # <<>>
    THEN [ok |-> FALSE, text |-> ""]
    ELSE [ok |-> TRUE, text |-> "No guilds were found."]

\* ------------------------------------------------------------- the view
\* fill_items adding the last-page button in compact mode too.
fill_items_last(src, cmp) ==
    IF is_paginating(src)
    THEN (IF cmp THEN <<>> ELSE <<"first">>)
         \o <<"prev", "stop", "next", "last">>
    ELSE <<>>

\* fill_items: the buttons attached at construction, in order.
fill_items(src, cmp) ==
    IF is_paginating(src)
    THEN (IF cmp THEN <<>> ELSE <<"first">>)
         \o <<"prev", "stop", "next">>
         \o (IF cmp THEN <<>> ELSE <<"last">>)
    ELSE <<>>

NoneDisabled == [b \in Buttons |-> FALSE]

\* _update_labels of src/pagination.py: the new disabled flags.
update_labels_pagination(cmp, mx, p, dis) ==
    LET d1 == [dis EXCEPT !["first"] = (p = 0)]
    IN IF cmp
       THEN [err |-> FALSE,
             dis |-> [d1 EXCEPT !["next"] = (mx # None /\ (p + 1) >= mx),
                                !["prev"] = (p = 0)]]
       ELSE LET d2 == [d1 EXCEPT !["next"] = FALSE, !["prev"] = FALSE]
            IN IF mx # None
               THEN [err |-> FALSE,
                     dis |-> [d2 EXCEPT
                         !["last"] = ((p + 1) >= mx),
                         !["next"] = IF (p + 1) >= mx THEN TRUE ELSE @,
                         !["prev"] = IF p = 0 THEN TRUE ELSE @,
                         !["first"] = IF p = 0 THEN TRUE ELSE @]]
               ELSE [err |-> FALSE, dis |-> d2]

\* main.py's _update_labels with the last-page flag set one page late.
update_labels_main_late(cmp, mx, p, dis) ==
    LET d1 == [dis EXCEPT !["first"] = (p = 0),
                          !["next"] = (mx # None /\ (p + 1) >= mx),
                          !["prev"] = (p = 0)]
    IN IF cmp
       THEN [err |-> FALSE, dis |-> d1]
       ELSE IF mx = None
            THEN [err |-> TRUE, dis |-> d1]
            ELSE [err |-> FALSE, dis |-> [d1 EXCEPT !["last"] = ((p + 1) > mx)]]

\* _update_labels of src/main.py: `(page_number + 1) >= max_pages` with
\* max_pages None raises TypeError after the first three flags are set.
update_labels_main(cmp, mx, p, dis) ==
    LET d1 == [dis EXCEPT !["first"] = (p = 0),
                          !["next"] = (mx # None /\ (p + 1) >= mx),
                          !["prev"] = (p = 0)]
    IN IF cmp
       THEN [err |-> FALSE, dis |-> d1]
       ELSE IF mx = None
            THEN [err |-> TRUE, dis |-> d1]
            ELSE [err |-> FALSE, dis |-> [d1 EXCEPT !["last"] = ((p + 1) >= mx)]]

\* interaction_check letting every user with an id through.
interaction_check_any(user) ==
    user # "nobody"

\* interaction_check: the acting user against the invoking user's id.
interaction_check(user) ==
    user # "nobody" /\ user = "owner"

\* view.stop() leaving the view as it is.
view_stop_skipped(f) ==
    f

\* view.stop(): the view is finished, by stop, unless it already is.
view_stop(f) ==
    IF f = "no" THEN "stop" ELSE f

\* The bound test with page 0 shut out.
checked_in_range_strict(mx, p) ==
    mx > p /\ p > 0

\* The bound test with max_pages itself let through.
checked_in_range_off(mx, p) ==
    mx >= p /\ p >= 0

\* show_checked_page's bound test, taken when max_pages is known.
checked_in_range(mx, p) ==
    mx > p /\ p >= 0

\* The last page taken to be max_pages.
last_page_off(mx) ==
    mx

\* go_to_last_page's target.
last_page(mx) ==
    mx - 1

\* The loop disabling the navigation buttons and not the stop button.
disable_children_nav(ch, dis) ==
    [b \in Buttons |->
        IF b # "stop" /\ \E i \in 1..Len(ch) : ch[i] = b THEN TRUE ELSE dis[b]]

\* on_timeout's loop: every child disabled.
disable_children(ch, dis) ==
    [b \in Buttons |-> IF \E i \in 1..Len(ch) : ch[i] = b THEN TRUE ELSE dis[b]]

\* prepare() run by every call.
prepare_always(n) ==
    n + 1

\* source._prepare_once(): prepare() runs on the first call and never again.
prepare_once(n) ==
    IF n = 0 THEN 1 ELSE n

\* ---------------------------------------------------------------- state
VARIABLES
    impl,           \* which copy of PaginationView runs: pagination.py or main.py
    source,         \* self.source
    compact,        \* self.compact
    interaction,    \* self.interaction: its kind and whether its response is done
    children,       \* self.children, as fill_items attached them
    message,        \* self.message: "None" or "msg"
    current_page,   \* self.current_page
    disabled,       \* the five buttons' disabled flags
    finished,       \* the view's stopped future: "no", "stop", "timeout"
    prepared,       \* times the source's prepare ran (_prepare_once)
    start,          \* start(): where it is, the denials sent, the calls made
    live,           \* the paginated message on the platform
    tasks,          \* the button presses being handled, a bag of tasks
    tmo,            \* the on_timeout task
    presses,        \* presses dispatched so far
    phase,          \* the session's state: Idle, Active, Stopped, TimedOut
    ev,             \* the last step taken
    call            \* the last call made of the list source on its own

config == <<impl, source, compact, children, call>>
session == <<message, current_page, disabled, finished, live, phase>>
vars == <<impl, source, compact, interaction,
          children, message, current_page, disabled, finished, prepared,
          start, live, tasks, tmo, presses, phase, ev, call>>

NoSnap == [page |-> None, dis |-> NoneDisabled]
\* The task of a press just dispatched: nothing of it has run.
QueuedTask ==
    [pc |-> "queued", btn |-> "stop", user |-> "owner", page |-> None,
     snap |-> NoSnap, done |-> FALSE]
IdleTimeout == [pc |-> "idle", snap |-> NoneDisabled]
NoCall ==
    [fn |-> "none", copy |-> "main", p |-> 0, has_invite |-> <<>>,
     ok |-> TRUE, single |-> FALSE, items |-> <<>>, text |-> "",
     flags |-> [prior |-> NoneDisabled,
                pagination |-> [err |-> FALSE, dis |-> NoneDisabled],
                main |-> [err |-> FALSE, dis |-> NoneDisabled]]]
NoMessage == [exists |-> FALSE, view |-> FALSE, page |-> None, dis |-> NoneDisabled]

\* PaginationView.__init__
Init ==
    /\ impl \in Copies
    /\ source \in Sources
    /\ compact \in BOOLEAN
    /\ interaction \in
           {[kind |-> "Context", done |-> FALSE]}
           \cup [kind : {"Interaction"}, done : BOOLEAN]
    /\ children = fill_items(source, compact)
    /\ message = "None"
    /\ current_page = 0
    /\ disabled = NoneDisabled
    /\ finished = "no"
    /\ prepared = 0
    /\ start = [pc |-> "init", denied |-> 0, calls |-> 1]
    /\ live = NoMessage
    /\ tasks = EmptyBag
    /\ tmo = IdleTimeout
    /\ presses = 0
    /\ phase = "Idle"
    /\ ev = [op |-> "init", btn |-> "stop", user |-> "owner"]
    /\ call = NoCall

\* _update_labels of the copy that runs.
update_labels(p, dis) ==
    IF impl = "pagination"
    THEN update_labels_pagination(compact, get_max_pages(source), p, dis)
    ELSE update_labels_main(compact, get_max_pages(source), p, dis)

\* ---------------------------------------------------------------- start
\* start(), the embed permission check: check_embeds is what the view was
\* constructed with (start alone reads it), embed_links what the channel
\* grants.  response.send_message on an interaction whose response is done
\* raises InteractionResponded.
StartCheck(check_embeds, embed_links) ==
    /\ start.pc = "init"
    /\ IF check_embeds /\ ~embed_links
       THEN IF interaction.kind = "Interaction"
            THEN IF interaction.done
                 THEN start' = [start EXCEPT !.pc = "raised"]
                 ELSE start' = [start EXCEPT !.pc = "done", !.denied = @ + 1]
            ELSE start' = [start EXCEPT !.pc = "render", !.denied = @ + 1]
       ELSE start' = [start EXCEPT !.pc = "render"]
    /\ interaction' =
           IF check_embeds /\ ~embed_links /\ interaction.kind = "Interaction"
              /\ ~interaction.done
           THEN [interaction EXCEPT !.done = TRUE]
           ELSE interaction
    /\ ev' = [op |-> "start_check", btn |-> "stop", user |-> "owner"]
    /\ UNCHANGED <<config, session, prepared, tasks, tmo, presses>>

\* start(): _prepare_once, get_page(0), format_page, _update_labels(0).
StartRender ==
    /\ start.pc = "render"
    /\ prepared' = prepare_once(prepared)
    /\ IF get_page(source, 0) # "ok"
       THEN /\ start' = [start EXCEPT !.pc = "raised"]
            /\ UNCHANGED disabled
       ELSE LET r == update_labels(0, disabled)
            IN /\ disabled' = r.dis
               /\ start' = [start EXCEPT !.pc = IF r.err THEN "raised" ELSE "send"]
    /\ ev' = [op |-> "start_render", btn |-> "stop", user |-> "owner"]
    /\ UNCHANGED <<config, interaction, message, current_page, finished, live,
                   phase, tasks, tmo, presses>>

\* start(): the paginated message is sent.  The followup of an interaction
\* whose response is done is sent without view=self.
StartSend ==
    /\ start.pc = "send"
    /\ IF interaction.kind = "Interaction"
       THEN IF ~interaction.done
            THEN /\ live' = [exists |-> TRUE, view |-> TRUE, page |-> 0,
                             dis |-> disabled]
                 /\ interaction' = [interaction EXCEPT !.done = TRUE]
                 /\ start' = [start EXCEPT !.pc = "fetch"]
                 /\ UNCHANGED message
            ELSE /\ live' = [exists |-> TRUE, view |-> FALSE, page |-> 0,
                             dis |-> NoneDisabled]
                 /\ message' = "msg"
                 /\ start' = [start EXCEPT !.pc = "done"]
                 /\ UNCHANGED interaction
       ELSE /\ live' = [exists |-> TRUE, view |-> TRUE, page |-> 0,
                        dis |-> disabled]
            /\ message' = "msg"
            /\ start' = [start EXCEPT !.pc = "done"]
            /\ UNCHANGED interaction
    /\ phase' = "Active"
    /\ ev' = [op |-> "start_send", btn |-> "stop", user |-> "owner"]
    /\ UNCHANGED <<config, current_page, disabled, finished, prepared, tasks,
                   tmo, presses>>

\* start(): self.message = await self.interaction.original_response()
StartFetch ==
    /\ start.pc = "fetch"
    /\ IF live.exists
       THEN /\ message' = "msg"
            /\ start' = [start EXCEPT !.pc = "done"]
       ELSE /\ start' = [start EXCEPT !.pc = "raised"]
            /\ UNCHANGED message
    /\ ev' = [op |-> "start_fetch", btn |-> "stop", user |-> "owner"]
    /\ UNCHANGED <<config, interaction, current_page, disabled, finished,
                   prepared, live, phase, tasks, tmo, presses>>

\* start() is called again on the view, the call before having returned or
\* raised.
StartAgain ==
    /\ start.pc \in {"done", "raised"}
    /\ start.calls < MaxStarts
    /\ start' = [start EXCEPT !.pc = "init", !.calls = @ + 1]
    /\ ev' = [op |-> "start_again", btn |-> "stop", user |-> "owner"]
    /\ UNCHANGED <<config, interaction, session, prepared, tasks, tmo, presses>>

\* ------------------------------------------------------- button presses
Nav == {"first", "prev", "next", "last"}
Checked == {"prev", "next"}

\* Task t goes on as rec.
SetTask(t, rec, op) ==
    /\ tasks' = (tasks (-) SetToBag({t})) (+) SetToBag({rec})
    /\ ev' = [op |-> op, btn |-> rec.btn, user |-> rec.user]

\* Task t, which ran as tk, is over.
EndTask(t, tk, op) ==
    /\ tasks' = tasks (-) SetToBag({t})
    /\ ev' = [op |-> op, btn |-> tk.btn, user |-> tk.user]

\* on_error, for an exception out of the callback of task t: the generic
\* notice (by followup when the response is done), then the detailed report
\* in a try that passes an HTTPException.  The notice's send is outside the
\* try: when it fails, on_error raises and no report is sent.  It touches
\* nothing of the view.
on_error(t, tk) ==
    \E notice_ok \in BOOLEAN, report_ok \in BOOLEAN :
        EndTask(t, tk, IF ~notice_ok THEN "on_error_raised"
                       ELSE IF report_ok THEN "report_sent"
                       ELSE "report_failed")

\* A press of an attached button reaches the view: the platform dispatches
\* it to a task of its own while the view listens and is not finished.
Press ==
    /\ live.exists /\ live.view /\ finished = "no"
    /\ presses < MaxPresses
    /\ children # <<>>
    /\ BagCardinality(tasks) < MaxInFlight
    /\ presses' = presses + 1
    /\ tasks' = tasks (+) SetToBag({QueuedTask})
    /\ ev' = [op |-> "press", btn |-> "stop", user |-> "owner"]
    /\ UNCHANGED <<config, interaction, session, prepared, start, tmo>>

\* show_page from _update_labels on: the flags are recomputed and, when the
\* formatter gave something to render, the edit is called with the page and
\* the view as they are now.
Render(t, tk, p, kw) ==
    LET r == update_labels(p, disabled)
        edit == SetTask(t, [tk EXCEPT !.pc = "commit", !.page = p,
                                      !.snap = [page |-> p, dis |-> r.dis]],
                        "edit_called")
    IN /\ disabled' = r.dis
       /\ IF r.err THEN on_error(t, tk)
          ELSE IF ~kw THEN EndTask(t, tk, "nothing_to_render")
          ELSE IF tk.done
               THEN IF message # "None" THEN edit ELSE EndTask(t, tk, "no_message")
               ELSE edit

\* show_page up to its first await that suspends.
ShowPage(t, tk, p) ==
    IF source.kind = "lazy"
    THEN /\ SetTask(t, [tk EXCEPT !.pc = "fetch", !.page = p], "get_page_called")
         /\ UNCHANGED <<current_page, disabled>>
    ELSE IF get_page(source, p) # "ok"
         THEN /\ IF tk.btn \in Checked
                 THEN EndTask(t, tk, "index_error_passed")
                 ELSE on_error(t, tk)
              /\ UNCHANGED <<current_page, disabled>>
         ELSE /\ current_page' = p
              /\ Render(t, tk, p, TRUE)

\* The task of a press starts, the press being of button b by user u:
\* interaction_check, then the button's callback up to its first await that
\* suspends.  stop_pages calls the defer, and after it the delete.
Begin(t, u, b) ==
    LET tk == [t EXCEPT !.btn = b, !.user = u]
        mx == get_max_pages(source)
        target == CASE tk.btn = "first" -> 0
                    [] tk.btn = "prev" -> current_page - 1
                    [] tk.btn = "next" -> current_page + 1
                    [] OTHER -> last_page(mx)
    IN /\ tk.pc = "queued"
       /\ \E i \in 1..Len(children) : children[i] = b
       /\ IF ~interaction_check(u)
          THEN /\ tasks' = tasks (-) SetToBag({t})
               /\ ev' = [op |-> "denied", btn |-> "stop", user |-> u]
               /\ UNCHANGED <<current_page, disabled>>
          ELSE IF tk.btn = "stop"
          THEN /\ SetTask(t, [tk EXCEPT !.pc = "delete", !.done = TRUE],
                          "delete_called")
               /\ UNCHANGED <<current_page, disabled>>
          ELSE IF tk.btn = "last" /\ mx = None
          THEN /\ on_error(t, tk)
               /\ UNCHANGED <<current_page, disabled>>
          ELSE IF tk.btn \in Checked /\ mx # None /\ ~checked_in_range(mx, target)
          THEN /\ EndTask(t, tk, "noop")
               /\ UNCHANGED <<current_page, disabled>>
          ELSE ShowPage(t, tk, target)
       /\ UNCHANGED <<config, interaction, message, finished, live, phase,
                      prepared, start, tmo, presses>>

\* show_page: a suspending get_page returns or raises.
Fetched(t) ==
    LET tk == t
    IN /\ tk.pc = "fetch"
       /\ \E fail \in BOOLEAN :
            IF fail
            THEN /\ on_error(t, tk)
                 /\ UNCHANGED current_page
            ELSE IF get_page(source, tk.page) # "ok"
            THEN /\ IF tk.btn \in Checked
                    THEN EndTask(t, tk, "index_error_passed")
                    ELSE on_error(t, tk)
                 /\ UNCHANGED current_page
            ELSE /\ current_page' = tk.page
                 /\ SetTask(t, [tk EXCEPT !.pc = "format"], "format_called")
       /\ UNCHANGED <<config, interaction, message, disabled, finished, live,
                      phase, prepared, start, tmo, presses>>

\* show_page: a suspending format_page returns something to render, returns
\* nothing renderable, or raises.
Formatted(t) ==
    LET tk == t
    IN /\ tk.pc = "format"
       /\ \E r \in {"ok", "empty", "fail"} :
            IF r = "fail"
            THEN /\ on_error(t, tk)
                 /\ UNCHANGED disabled
            ELSE Render(t, tk, tk.page, r = "ok")
       /\ UNCHANGED <<config, interaction, message, current_page, finished,
                      live, phase, prepared, start, tmo, presses>>

\* show_page: the edit reaches the platform.  It fails when the message is
\* gone, and may fail on its own.
Commit(t) ==
    LET tk == t
    IN /\ tk.pc = "commit"
       /\ \E ok \in BOOLEAN :
            IF ok /\ live.exists
            THEN /\ live' = [live EXCEPT !.page = tk.snap.page, !.dis = tk.snap.dis,
                                         !.view = TRUE]
                 /\ EndTask(t, tk, "committed")
            ELSE /\ on_error(t, tk)
                 /\ UNCHANGED live
       /\ UNCHANGED <<config, interaction, message, current_page, disabled,
                      finished, phase, prepared, start, tmo, presses>>

\* stop_pages: the delete reaches the platform; it fails when the message
\* is already gone.
Deleted(t) ==
    LET tk == t
    IN /\ tk.pc = "delete"
       /\ IF live.exists
          THEN /\ live' = [live EXCEPT !.exists = FALSE]
               /\ SetTask(t, [tk EXCEPT !.pc = "deleted"], "deleted")
          ELSE /\ on_error(t, tk)
               /\ UNCHANGED live
       /\ UNCHANGED <<config, interaction, message, current_page, disabled,
                      finished, phase, prepared, start, tmo, presses>>

\* stop_pages: the task resumes after the delete and calls self.stop().
Stopped(t) ==
    LET tk == t
    IN /\ tk.pc = "deleted"
       /\ finished' = view_stop(finished)
       /\ phase' = IF phase = "Active" THEN "Stopped" ELSE phase
       /\ EndTask(t, tk, "stopped")
       /\ UNCHANGED <<config, interaction, message, current_page, disabled,
                      live, prepared, start, tmo, presses>>

\* -------------------------------------------------------------- timeout
\* The view's timeout expires: the view is finished and on_timeout runs up
\* to its await: with a message, every child is disabled and the edit is
\* called with the view as it is now.
Timeout ==
    /\ live.view /\ finished = "no"
    /\ tmo.pc = "idle"
    /\ finished' = "timeout"
    /\ phase' = "TimedOut"
    /\ IF message # "None"
       THEN /\ disabled' = disable_children(children, disabled)
            /\ tmo' = [pc |-> "edit", snap |-> disabled']
            /\ ev' = [op |-> "timeout_edit_called", btn |-> "stop", user |-> "owner"]
       ELSE /\ tmo' = [IdleTimeout EXCEPT !.pc = "done"]
            /\ ev' = [op |-> "timeout_no_message", btn |-> "stop", user |-> "owner"]
            /\ UNCHANGED disabled
    /\ UNCHANGED <<config, interaction, message, current_page, live,
                   prepared, start, tasks, presses>>

\* on_timeout: the edit reaches the platform; it fails when the message is
\* gone, and nothing catches that.
TimeoutEdit ==
    /\ tmo.pc = "edit"
    /\ IF live.exists
       THEN /\ live' = [live EXCEPT !.dis = tmo.snap]
            /\ tmo' = [IdleTimeout EXCEPT !.pc = "done"]
            /\ ev' = [op |-> "timeout_edited", btn |-> "stop", user |-> "owner"]
       ELSE /\ tmo' = [IdleTimeout EXCEPT !.pc = "failed"]
            /\ ev' = [op |-> "timeout_edit_raised", btn |-> "stop", user |-> "owner"]
            /\ UNCHANGED live
    /\ UNCHANGED <<config, interaction, message, current_page, disabled,
                   finished, phase, prepared, start, tasks, presses>>

\* ------------------------------------------------------ the specification
Next ==
    \/ \E check_embeds \in BOOLEAN, embed_links \in BOOLEAN :
          StartCheck(check_embeds, embed_links)
    \/ StartRender
    \/ StartSend
    \/ StartFetch
    \/ Press
    \/ \E t \in BagToSet(tasks), u \in Users, b \in Buttons : Begin(t, u, b)
    \/ \E t \in BagToSet(tasks) : Fetched(t)
    \/ \E t \in BagToSet(tasks) : Formatted(t)
    \/ \E t \in BagToSet(tasks) : Commit(t)
    \/ \E t \in BagToSet(tasks) : Deleted(t)
    \/ \E t \in BagToSet(tasks) : Stopped(t)
    \/ Timeout
    \/ TimeoutEdit

Spec == Init /\ [][Next]_vars

\* start() called up to MaxStarts times on one view and source, no button
\* pressed.
NextStarts ==
    \/ \E check_embeds \in BOOLEAN, embed_links \in BOOLEAN :
          StartCheck(check_embeds, embed_links)
    \/ StartRender
    \/ StartSend
    \/ StartFetch
    \/ StartAgain

SpecStarts == Init /\ [][NextStarts]_vars

\* ------------------------------------------------- the list source alone
PageNumbers == (0 - (MaxItems + 1))..(MaxItems + 1)
FormatterCopies == {"main", "menu"}
Entries(n) == [i \in 1..n |-> i]

\* source.get_page(p) of the list source.
GetPage(p) ==
    LET r == list_get_page(Entries(source.n), source.per_page, p)
    IN /\ call' = [NoCall EXCEPT !.fn = "get_page", !.p = p, !.ok = r.ok,
                                  !.single = r.single, !.items = r.items]
       /\ UNCHANGED <<impl, source, compact, children, interaction, session,
                      prepared, start, tasks, tmo, presses, ev>>

\* servers_command's data paged by the source, and the page formatted by
\* copy c of format_page.
FormatPage(c, has_invite, p) ==
    LET page == list_get_page(guilds_data(has_invite), source.per_page, p)
        r == IF c = "main" THEN format_page(page) ELSE format_page_menu(page)
    IN /\ page.ok
       /\ call' = [NoCall EXCEPT !.fn = "format_page", !.copy = c, !.p = p,
                                  !.has_invite = has_invite, !.ok = r.ok,
                                  !.single = page.single, !.text = r.text]
       /\ UNCHANGED <<impl, source, compact, children, interaction, session,
                      prepared, start, tasks, tmo, presses, ev>>

PagesInit ==
    /\ Init
    /\ impl = "main" /\ source.kind = "list" /\ ~compact
    /\ interaction.kind = "Context"

NextPages ==
    \/ \E p \in PageNumbers : GetPage(p)
    \/ \E c \in FormatterCopies, has_invite \in [1..source.n -> BOOLEAN],
          p \in 0..get_max_pages(source) :
          FormatPage(c, has_invite, p)

SpecPages == PagesInit /\ [][NextPages]_vars

\* ------------------------------------------- the two _update_labels alone
\* _update_labels(p) of both copies on a view of this source and mode whose
\* buttons have the flags prior.
UpdateLabels(p, prior) ==
    /\ call' = [NoCall EXCEPT
                   !.fn = "update_labels", !.p = p,
                   !.flags = [prior |-> prior,
                              pagination |->
                                  update_labels_pagination(
                                      compact, get_max_pages(source), p, prior),
                              main |->
                                  update_labels_main(
                                      compact, get_max_pages(source), p, prior)]]
    /\ UNCHANGED <<impl, source, compact, children, interaction, session,
                   prepared, start, tasks, tmo, presses, ev>>

\* A list source with a page to show.
LabelsInit ==
    /\ Init
    /\ impl = "main" /\ source.kind = "list" /\ get_max_pages(source) >= 1
    /\ interaction.kind = "Context"

NextLabels ==
    \E p \in 0..MaxItems, prior \in [Buttons -> BOOLEAN] : UpdateLabels(p, prior)

SpecLabels == LabelsInit /\ [][NextLabels]_vars

\* ------------------------------------------------------------ the claims
MaxPagesKnown == get_max_pages(source) # None
PageCount == get_max_pages(source)
Started == live.page # None
Attached(b) == \E i \in 1..Len(children) : children[i] = b
Terminal == phase \in {"Stopped", "TimedOut"}
InFlight ==
    \/ tasks # EmptyBag
    \/ tmo.pc = "edit"
\* The step is the start of a task: its interaction_check and callback.
BeginStep ==
    CopiesIn(QueuedTask, tasks') < CopiesIn(QueuedTask, tasks)
\* The step is the end of a task.
EndStep ==
    BagCardinality(tasks') < BagCardinality(tasks)

C2_CheckedNoOp ==
    [][LET target == IF ev'.btn = "prev" THEN current_page - 1
                     ELSE current_page + 1
       IN (/\ BeginStep
           /\ ev'.btn \in Checked /\ ev'.user = "owner" /\ ev'.op # "denied"
           /\ MaxPagesKnown
           /\ (target < 0 \/ target > PageCount - 1))
          => /\ UNCHANGED <<current_page, disabled, live, message, finished>>
             /\ EndStep
             /\ ev'.op = "noop"]_vars

C2_Witness ==
    /\ ev.op = "noop" /\ ev.btn = "next"
    /\ current_page = PageCount - 1 /\ current_page > 0
    /\ \E t \in BagToSet(tasks) : t.pc = "commit" /\ t.btn = "next"

\* C3: the gate lets the press of the owner through and no other: a press
\* of any other user, or of none, is answered by the one denial and ends
\* there, with current_page, the flags, the live message, the handle and
\* the session's state as they were.
C3_Gate ==
    [][BeginStep =>
          /\ ev'.user = "owner" => ev'.op # "denied"
          /\ ev'.user # "owner" =>
               /\ ev'.op = "denied"
               /\ EndStep
               /\ UNCHANGED <<current_page, disabled, live, message,
                              finished, phase>>]_vars

C3_Witness ==
    ev.op = "denied" /\ ev.user = "other" /\ phase = "Active" /\ current_page > 0

\* C4: when start has returned, the view having buttons to attach, either
\* the page was sent with the view attached or one denial was sent, and not
\* both.
C4_OneOutcome ==
    (start.pc = "done" /\ children # <<>>) =>
        ((Started /\ live.view) # (start.denied = 1))

\* C5: when start found the embed permission missing, the source was not
\* prepared, no page was sent and the message handle is None.
C5_DeniedNeverStarts ==
    (start.denied > 0 /\ start.pc = "done") =>
        (prepared = 0 /\ ~Started /\ message = "None")

\* C6: right after start's send and after every committed transition of an
\* Active session, First (when attached) and Previous are disabled iff
\* current_page is 0, Next and Last (when attached) iff the page count is
\* known and current_page + 1 >= pageCount.
C6_Flags ==
    (phase = "Active" /\ ev.op \in {"start_send", "committed"}) =>
        LET atLast == MaxPagesKnown /\ current_page + 1 >= PageCount
        IN /\ Attached("first") => (disabled["first"] = (current_page = 0))
           /\ disabled["prev"] = (current_page = 0)
           /\ disabled["next"] = atLast
           /\ Attached("last") => (disabled["last"] = atLast)

\* C7: once the session is Stopped or TimedOut it stays so, no press and no
\* timeout is dispatched any more, and with no handler left in flight
\* current_page, the flags and the live message do not change.
C7_Terminal ==
    [][Terminal =>
         /\ phase' = phase
         /\ presses' = presses
         /\ tmo.pc = "idle" => tmo'.pc = "idle"
         /\ ~InFlight => UNCHANGED <<current_page, disabled, live>>]_vars

C7_Witness ==
    /\ phase = "Stopped" /\ ev.op = "stopped"
    /\ ~InFlight /\ presses < MaxPresses

\* C8: on_timeout with a message handle and the message still there
\* disables every attached button and calls one edit; that edit leaves the
\* message in place, with its page, showing every attached button disabled;
\* current_page does not change and the session is TimedOut.
C8_Timeout ==
    [][/\ (tmo.pc = "idle" /\ tmo'.pc # "idle" /\ message # "None"
           /\ live.exists) =>
             /\ \A b \in Buttons : Attached(b) => disabled'[b]
             /\ tmo'.pc = "edit"
             /\ UNCHANGED <<current_page, live>>
             /\ phase' = "TimedOut"
       /\ (tmo.pc = "edit" /\ tmo'.pc # "edit" /\ live.exists) =>
             /\ live'.exists /\ live'.page = live.page
             /\ \A b \in Buttons : Attached(b) => live'.dis[b]
             /\ tmo'.pc = "done"
             /\ UNCHANGED current_page
             /\ phase' = "TimedOut"]_vars

C8_Witness ==
    /\ ev.op = "timeout_edited" /\ live.exists /\ Attached("stop")
    /\ live.dis["stop"] /\ current_page > 0

\* C9: on_timeout never calls an edit of a message that is gone, and never
\* fails.
C9_TimeoutAfterDelete ==
    /\ tmo.pc # "failed"
    /\ ev.op = "timeout_edit_called" => live.exists

\* C10: when the handling of a page-transition press fails, on_error sends
\* the notice and then the report, and the session's state, current_page
\* aside, is as the failing step left it.
C10_FailureCaptured ==
    [][(EndStep /\ ev'.btn \in Nav
        /\ ev'.op \in {"on_error_raised", "report_sent", "report_failed"})
       => (ev'.op # "on_error_raised" /\ phase' = phase)]_vars

\* C11: whichever send of on_error fails, the notice or the report, on_error
\* returns without raising.
C11_DeliverySwallowed ==
    ev.op # "on_error_raised"

\* The flags _update_labels computes for page p, of the buttons it sets.
FlagsFor(p) == update_labels(p, NoneDisabled).dis

\* C12: while the session is Active, the view having buttons, the live
\* message carries the view, and the navigation buttons it shows have the
\* flags computed for the page it shows.
C12_CombinedCommit ==
    (phase = "Active" /\ live.exists /\ Started /\ children # <<>>) =>
        /\ live.view
        /\ \A b \in Nav : Attached(b) => live.dis[b] = FlagsFor(live.page)[b]

\* C13: once the timeout and every page transition it raced with have
\* completed, the message still there, the flags in memory are the flags
\* the live message shows.
C13_LastRenderWins ==
    (phase = "TimedOut" /\ tmo.pc = "done" /\ tasks = EmptyBag
     /\ message # "None" /\ live.exists) =>
        \A b \in Buttons : Attached(b) => live.dis[b] = disabled[b]

\* C14: no press of the stop button by the owner ends in on_error.
C14_StopIdempotent ==
    (ev.btn = "stop" /\ ev.user = "owner") =>
        ev.op \notin {"on_error_raised", "report_sent", "report_failed"}

C16_ListPages ==
    LET n == source.n
        per == source.per_page
        p == call.p
        hi == IF (p + 1) * per < n THEN (p + 1) * per ELSE n
    IN call.fn = "get_page" =>
         /\ PageCount * per >= n /\ (PageCount - 1) * per < n
         /\ n = 0 => PageCount = 0
         /\ (0 <= p /\ p < PageCount) =>
                /\ call.ok /\ ~call.single
                /\ call.items = [i \in 1..(hi - p * per) |-> p * per + i]
         /\ (p < 0 \/ (p * per >= n /\ n > 0)) => ~call.ok
         /\ (n = 0 /\ p = 0) => (call.ok /\ call.items = <<>>)

\* The description the listing is to have for guilds lo..hi: a line
\* "name: invite" per guild, "No invite available" for a guild without one,
\* a blank line between two lines.
RECURSIVE ExpectedLines(_, _, _)
ExpectedLines(has_invite, lo, hi) ==
    IF lo > hi THEN ""
    ELSE ("guild" \o ToString(lo) \o ": "
          \o (IF has_invite[lo] THEN "http://inv/" \o ToString(lo)
              ELSE "No invite available")
          \o (IF lo < hi THEN "\n\n" ELSE "")
          \o ExpectedLines(has_invite, lo + 1, hi))

\* C18: either copy of format_page, given a page slice of the guild entries,
\* renders their lines in order joined by a blank line, and "No guilds were
\* found." for the empty slice.
C18_Formatter ==
    LET n == source.n
        per == source.per_page
        lo == call.p * per + 1
        hi == IF (call.p + 1) * per < n THEN (call.p + 1) * per ELSE n
    IN (call.fn = "format_page" /\ ~call.single) =>
         /\ call.ok
         /\ call.text = IF lo > hi THEN "No guilds were found."
                        ELSE ExpectedLines(call.has_invite, lo, hi)

\* The buttons a session is to have: none when the page count is known and
\* at most 1, else Previous, Stop, Next, with First and Last around them
\* unless compact.
ControlsAsBuilt ==
    children =
        IF MaxPagesKnown /\ PageCount <= 1 THEN <<>>
        ELSE IF compact THEN <<"prev", "stop", "next">>
        ELSE <<"first", "prev", "stop", "next", "last">>

\* C17: the attached buttons are those of the source and the mode, before
\* and after every step, and no step changes them.
C17_FixedControls ==
    [][ControlsAsBuilt /\ ControlsAsBuilt' /\ children' = children]_vars

C17_Witness ==
    /\ compact /\ children = <<"prev", "stop", "next">>
    /\ ev.op = "committed" /\ current_page > 0

\* C19: in an Active session with a known page count of 2 or more at page
\* p, the owner's First, Last, Next with p + 1 < pageCount, or Previous with
\* p > 0 sets current_page to 0, pageCount - 1, p + 1, p - 1 and calls the
\* edit for that page; and the edit that succeeds shows the page it was
\* called for.
C19_NavigationTargets ==
    [][LET p == current_page
           b == ev'.btn
           target == CASE b = "first" -> 0
                       [] b = "last" -> PageCount - 1
                       [] b = "next" -> p + 1
                       [] OTHER -> p - 1
       IN /\ (/\ BeginStep /\ ev'.user = "owner" /\ b \in Nav
              /\ phase = "Active" /\ MaxPagesKnown /\ PageCount >= 2
              /\ (b = "next" => p + 1 < PageCount)
              /\ (b = "prev" => p > 0))
             => /\ ev'.op = "edit_called"
                /\ current_page' = target
                /\ \E t \in BagToSet(tasks' (-) tasks) : t.snap.page = target
          /\ (EndStep /\ ev'.op = "committed" /\ MaxPagesKnown)
             => \A t \in BagToSet(tasks (-) tasks') : live'.page = t.snap.page]_vars

C19_Witness ==
    /\ ev.op = "committed" /\ ev.btn = "next" /\ phase = "Active"
    /\ MaxPagesKnown /\ PageCount >= 3
    /\ current_page = PageCount - 1 /\ live.page = current_page

\* C20: in an Active session with no handler in flight, current_page is
\* the page the live message shows, and the flags in memory are the flags it
\* shows.
C20_PageShown ==
    (phase = "Active" /\ ~InFlight /\ start.pc = "done" /\ live.exists
     /\ live.view) =>
        /\ current_page = live.page
        /\ \A b \in Nav : Attached(b) => disabled[b] = live.dis[b]

\* C21: for a page p >= 0, a known page count of 1 or more, either mode and
\* any prior flags, the two copies of _update_labels both return, and leave
\* First, Previous, Next and Last with the same disabled flags.
C21_CopiesAgree ==
    call.fn = "update_labels" =>
        /\ ~call.flags.pagination.err /\ ~call.flags.main.err
        /\ \A b \in Nav :
               call.flags.pagination.dis[b] = call.flags.main.dis[b]

C21_Witness ==
    /\ call.fn = "update_labels" /\ ~compact /\ PageCount >= 2
    /\ call.p = PageCount - 1
    /\ call.flags.prior = [b \in Buttons |-> b \in {"first", "prev"}]
    /\ call.flags.main.dis = [b \in Buttons |-> b \in {"next", "last"}]

====
